---- MODULE Spec2Model ----
(***************************************************************************)
(* Model of scripts/update-templates.py: the upstream-drift reconciler,    *)
(* and of scripts/validate-templates.py: the linter of the templates.      *)
(*                                                                         *)
(* Strings are sequences of one-character strings, so that the regular     *)
(* expressions of extract_default_value, the '=' split of the list form    *)
(* and the keyword search of the masking rule are computed character by    *)
(* character, as the code computes them.                                   *)
(***************************************************************************)
EXTENDS Integers, Sequences, FiniteSets, TLC

VARIABLES
    files,              \* project name -> local descriptor file on disk
    pc,                 \* position of main: "loop", "exited" or "crashed"
    idx,                \* index in the table of the next project of the for loop
    updated_templates,  \* main's list updated_templates
    exit_status,        \* process exit status, -1 while running
    last,               \* what the most recent loop iteration saw and did
    visited,            \* the projects the for loop has taken, in the order taken
    modified,           \* the projects whose file on disk this run has changed
    value,              \* argument of the extract_default_value call under test
    result,             \* its return value
    epc,                \* "call" before that call, "done" after it, "idle" if none
    entry,              \* (var_name, var_value) of the classification under test
    record,             \* the Config elements it adds to an empty root
    cpc,                \* "call" before the classification, "done" after it, "idle"
    svc,                \* the only service of the document extract_service_config gets
    surface,            \* what extract_service_config returns for it
    spc,                \* "call" before that call, "done" after it, "idle" if none
    templates,          \* the files templates_dir.rglob('*.xml') yields, in its order
    vidx,               \* index in templates of the next file of the validator's loop
    has_errors,         \* the validator's flag has_errors
    templates_checked,  \* the validator's counter templates_checked
    checked,            \* the indices of the files handed to validate_template, in order
    vexit,              \* exit status of the validator, -1 while running
    vpc                 \* position of the validator: "loop", "exited", or "idle"

vars == <<files, pc, idx, updated_templates, exit_status, last, visited, modified,
          value, result, epc, entry, record, cpc, svc, surface, spc,
          templates, vidx, has_errors, templates_checked, checked, vexit, vpc>>

mainVars == <<files, pc, idx, updated_templates, exit_status, last, visited, modified>>
extractVars == <<value, result, epc>>
classifyVars == <<entry, record, cpc>>
surfaceVars == <<svc, surface, spc>>
validateVars == <<templates, vidx, has_errors, templates_checked, checked, vexit, vpc>>

----------------------------------------------------------------------------
(* Bounds of the model *)

\* longest free-form string handed to extract_default_value
MaxStrLen == 6
\* longest default segment D of the generated placeholders ${X:-D}, ${X-D}
MaxDefaultLen == 3
\* largest integer literal handed to extract_default_value
MaxInt == 11
\* longest free-form variable name handed to the classification
MaxNameLen == 4
\* largest number of entries of an environment handed to extract_service_config
MaxEnvLen == 3
\* largest number of files the validator discovers
MaxTemplates == 3

----------------------------------------------------------------------------
(* Python values and strings *)

\* a YAML scalar as yaml.safe_load delivers it: str, int, bool or None
StrV(s)  == [t |-> "str",  s |-> s,    n |-> 0]
IntV(n)  == [t |-> "int",  s |-> <<>>, n |-> n]
BoolV(b) == [t |-> "bool", s |-> <<>>, n |-> IF b THEN 1 ELSE 0]
NoneV    == [t |-> "none", s |-> <<>>, n |-> 0]

\* Python truthiness, as used by `if not value`
Truthy(v) ==
    CASE v.t = "str"  -> v.s # <<>>
      [] v.t = "int"  -> v.n # 0
      [] v.t = "bool" -> v.n = 1
      [] OTHER        -> FALSE

DigitChars == <<"0", "1", "2", "3", "4", "5", "6", "7", "8", "9">>

RECURSIVE Digits(_)
Digits(n) == IF n < 10 THEN <<DigitChars[n + 1]>>
             ELSE Digits(n \div 10) \o <<DigitChars[(n % 10) + 1]>>

\* Python's str(value)
PyStr(v) ==
    CASE v.t = "str"  -> v.s
      [] v.t = "int"  -> Digits(v.n)
      [] v.t = "bool" -> IF v.n = 1 THEN <<"T", "r", "u", "e">>
                                    ELSE <<"F", "a", "l", "s", "e">>
      [] OTHER        -> <<"N", "o", "n", "e">>

\* index of the first c in s at or after position i, 0 if there is none
RECURSIVE IndexFrom(_, _, _)
IndexFrom(s, c, i) ==
    IF i > Len(s) THEN 0
    ELSE IF s[i] = c THEN i
    ELSE IndexFrom(s, c, i + 1)

Max(S) == CHOOSE x \in S : \A y \in S : y <= x

----------------------------------------------------------------------------
(* extract_default_value *)

\* r'\$\{' matched at the start of s (re.match anchors at the start only)
ReOpen(s) == Len(s) >= 2 /\ s[1] = "$" /\ s[2] = "{"

\* [^:}]+ taking exactly the k characters after "${"
Re1Name(s, k) ==
    /\ k >= 1
    /\ 2 + k <= Len(s)
    /\ \A i \in 3..(2 + k) : s[i] \notin {":", "}"}

\* (:-?|-) at position p: the positions where group 2 may start, in the order
\* the backtracking matcher tries them (":-" before ":", then "-")
Re1Seps(s, p) ==
    IF p > Len(s) THEN <<>>
    ELSE IF s[p] = ":"
         THEN IF p + 1 <= Len(s) /\ s[p + 1] = "-" THEN <<p + 2, p + 1>> ELSE <<p + 1>>
    ELSE IF s[p] = "-" THEN <<p + 1>>
    ELSE <<>>

\* ([^}]*)\} from position g: the position of the closing brace, 0 if none.
\* [^}]* is greedy and stops only at a "}" or at the end of the string.
Re1Close(s, g) == IndexFrom(s, "}", g)

\* the name lengths k for which the rest of the first pattern matches
Re1Lengths(s) ==
    { k \in 1..Len(s) :
        /\ Re1Name(s, k)
        /\ \E j \in DOMAIN Re1Seps(s, 2 + k + 1) :
               Re1Close(s, Re1Seps(s, 2 + k + 1)[j]) # 0 }

Re1Matches(s) == ReOpen(s) /\ Re1Lengths(s) # {}

\* match.group(2): [^:}]+ is greedy, so the longest name that lets the rest
\* match wins; then the first separator alternative that lets the rest match
Re1Group2(s) ==
    LET k    == Max(Re1Lengths(s))
        seps == Re1Seps(s, 2 + k + 1)
        j    == CHOOSE i \in DOMAIN seps :
                    /\ Re1Close(s, seps[i]) # 0
                    /\ \A h \in 1..(i - 1) : Re1Close(s, seps[h]) = 0
        g    == seps[j]
    IN  SubSeq(s, g, Re1Close(s, g) - 1)

\* re.match(r'\$\{[^}]+\}', s)
Re2Matches(s) ==
    /\ ReOpen(s)
    /\ Len(s) >= 4
    /\ s[3] # "}"
    /\ IndexFrom(s, "}", 4) # 0

extract_default_value(v) ==
    IF ~Truthy(v) THEN <<>>
    ELSE LET s == PyStr(v) IN
         IF Re1Matches(s) THEN Re1Group2(s)
         ELSE IF Re2Matches(s) THEN <<>>
         ELSE s

----------------------------------------------------------------------------
(* Python dicts: insertion-ordered, one entry per key *)

\* a dict is a sequence of [k |-> key, v |-> value] with pairwise distinct keys
DictKeys(d) == { d[i].k : i \in DOMAIN d }

\* a list of pairs in place of the dict: d.append((k, v)), a key met again
\* included
PairsAppend(d, k, v) == Append(d, [k |-> k, v |-> v])

\* d[k] = v: an existing key keeps its place and takes the new value
DictSet(d, k, v) ==
    IF k \in DictKeys(d)
    THEN [i \in DOMAIN d |-> IF d[i].k = k THEN [k |-> k, v |-> v] ELSE d[i]]
    ELSE Append(d, [k |-> k, v |-> v])

----------------------------------------------------------------------------
(* fetch_docker_compose *)

\* the parsed remote document: None (an empty body), or a mapping
NoneDoc == [t |-> "none", has_other |-> FALSE, has_services |-> FALSE, services |-> <<>>]
\* what yaml.safe_load cannot parse: it raises inside the try block
BadYaml == [t |-> "bad_yaml", has_other |-> FALSE, has_services |-> FALSE, services |-> <<>>]
MapDoc(other, has, svcs) ==
    [t |-> "map", has_other |-> other, has_services |-> has, services |-> svcs]

\* Python truthiness of the document: None and the empty mapping are falsy
DocTruthy(doc) == doc.t = "map" /\ (doc.has_other \/ doc.has_services)

\* fetch_docker_compose without the status check: the body of any response
\* that arrived is parsed
fetch_ignoring_status(resp) ==
    IF resp.st = "exc" THEN NoneDoc
    ELSE IF resp.body.t = "bad_yaml" THEN NoneDoc ELSE resp.body

\* a response is [st, body]: st is "200", another status such as "404", or
\* "exc" when requests.get raised (transport error, timeout)
fetch_docker_compose(resp) ==
    IF resp.st = "exc" THEN NoneDoc
    ELSE IF resp.st = "200"
         THEN IF resp.body.t = "bad_yaml" THEN NoneDoc ELSE resp.body
    ELSE NoneDoc

----------------------------------------------------------------------------
(* extract_service_config *)

\* item.split('=', 1) for an item that contains '='
SplitKey(item)   == SubSeq(item, 1, IndexFrom(item, "=", 1) - 1)
SplitValue(item) == SubSeq(item, IndexFrom(item, "=", 1) + 1, Len(item))

\* for key, value in env.items(): config['environment'][key] = ...
RECURSIVE EnvFromDict(_, _)
EnvFromDict(env, acc) ==
    IF env = <<>> THEN acc
    ELSE EnvFromDict(Tail(env),
                     DictSet(acc, Head(env).k, extract_default_value(Head(env).v)))

\* for item in env: if '=' in item: ...
RECURSIVE EnvFromList(_, _)
EnvFromList(env, acc) ==
    IF env = <<>> THEN acc
    ELSE LET item == Head(env) IN
         EnvFromList(Tail(env),
                     IF IndexFrom(item, "=", 1) # 0
                     THEN DictSet(acc, SplitKey(item),
                                  extract_default_value(StrV(SplitValue(item))))
                     ELSE acc)

\* a service of the remote document
Service(form, envd, envl, ports, volumes) ==
    [env_form |-> form, env_dict |-> envd, env_list |-> envl,
     ports |-> ports, volumes |-> volumes]

\* extract_service_config taking the last service of the document,
\* list(compose_data['services'].keys())[-1], in place of the first
extract_last_service_config(compose_data) ==
    IF ~DocTruthy(compose_data) \/ ~compose_data.has_services
    THEN [st |-> "none", exc |-> "", environment |-> <<>>, ports |-> <<>>, volumes |-> <<>>]
    ELSE IF compose_data.services = <<>>
    THEN [st |-> "raise", exc |-> "IndexError", environment |-> <<>>,
          ports |-> <<>>, volumes |-> <<>>]
    ELSE LET service == compose_data.services[Len(compose_data.services)] IN
         [st |-> "ok", exc |-> "",
          environment |->
              CASE service.env_form = "dict" -> EnvFromDict(service.env_dict, <<>>)
                [] service.env_form = "list" -> EnvFromList(service.env_list, <<>>)
                [] OTHER -> <<>>,
          ports |-> service.ports,
          volumes |-> service.volumes]

\* [st |-> "none"]: the function returned None; "raise": it raised exc;
\* "ok": it returned the config dict
extract_service_config(compose_data) ==
    IF ~DocTruthy(compose_data) \/ ~compose_data.has_services
    THEN [st |-> "none", exc |-> "", environment |-> <<>>, ports |-> <<>>, volumes |-> <<>>]
    ELSE IF compose_data.services = <<>>
    THEN \* list(compose_data['services'].keys())[0] on an empty mapping
         [st |-> "raise", exc |-> "IndexError", environment |-> <<>>,
          ports |-> <<>>, volumes |-> <<>>]
    ELSE LET service == compose_data.services[1] IN
         [st |-> "ok", exc |-> "",
          environment |->
              CASE service.env_form = "dict" -> EnvFromDict(service.env_dict, <<>>)
                [] service.env_form = "list" -> EnvFromList(service.env_list, <<>>)
                [] OTHER -> <<>>,
          ports |-> service.ports,
          volumes |-> service.volumes]

----------------------------------------------------------------------------
(* the local descriptor *)

\* a <Config> element: its attributes (an absent attribute reads as '') and text
Config(name, target, default, mode, description, type, display, required, mask, text) ==
    [Name |-> name, Target |-> target, Default |-> default, Mode |-> mode,
     Description |-> description, Type |-> type, Display |-> display,
     Required |-> required, Mask |-> mask, text |-> text]

\* the file at xml_path: missing, not well-formed, or a template whose root
\* holds the <Config> children `configs`, in document order
MissingFile  == [kind |-> "missing", configs |-> <<>>]
CorruptFile  == [kind |-> "corrupt", configs |-> <<>>]
XmlFile(cfs) == [kind |-> "xml", configs |-> cfs]

\* the file holds the serialized elements: in an XmlFile the attribute values
\* and texts are as ElementTree writes them, with markup characters escaped

\* _escape_cdata, for element text
EscapeTextChar(c) ==
    CASE c = "&" -> <<"&", "a", "m", "p", ";">>
      [] c = "<" -> <<"&", "l", "t", ";">>
      [] c = ">" -> <<"&", "g", "t", ";">>
      [] OTHER   -> <<c>>

\* _escape_attrib, for attribute values
EscapeAttribChar(c) ==
    IF c = "\"" THEN <<"&", "q", "u", "o", "t", ";">> ELSE EscapeTextChar(c)

RECURSIVE EscapeText(_)
EscapeText(s) ==
    IF s = <<>> THEN <<>> ELSE EscapeTextChar(Head(s)) \o EscapeText(Tail(s))

RECURSIVE EscapeAttrib(_)
EscapeAttrib(s) ==
    IF s = <<>> THEN <<>> ELSE EscapeAttribChar(Head(s)) \o EscapeAttrib(Tail(s))

\* the character an entity reference stands for; a reference the parser does
\* not know makes the file not well-formed, which CorruptFile models, so an
\* XmlFile holds none and the reference is then kept as it is
EntityChar(name) ==
    CASE name = <<"a", "m", "p">>      -> <<"&">>
      [] name = <<"l", "t">>           -> <<"<">>
      [] name = <<"g", "t">>           -> <<">">>
      [] name = <<"q", "u", "o", "t">> -> <<"\"">>
      [] OTHER                         -> <<"&">> \o name \o <<";">>

\* what the parser makes of a serialized attribute value or text
RECURSIVE Unescape(_)
Unescape(s) ==
    IF s = <<>> THEN <<>>
    ELSE IF Head(s) = "&" /\ IndexFrom(s, ";", 2) # 0
         THEN EntityChar(SubSeq(s, 2, IndexFrom(s, ";", 2) - 1))
                  \o Unescape(SubSeq(s, IndexFrom(s, ";", 2) + 1, Len(s)))
    ELSE <<Head(s)>> \o Unescape(Tail(s))

\* the Config children of the root of the tree ET.parse returns
ParseConfigs(cfs) ==
    [i \in DOMAIN cfs |->
        [cfs[i] EXCEPT !.Name = Unescape(@), !.Target = Unescape(@),
                       !.Default = Unescape(@), !.Description = Unescape(@),
                       !.text = Unescape(@)]]

\* the Config elements as tree.write serializes them (ET.indent changes the
\* whitespace between elements only; a Config has no children and keeps its text)
SerializeConfigs(configs) ==
    [i \in DOMAIN configs |->
        [configs[i] EXCEPT !.Name = EscapeAttrib(@), !.Target = EscapeAttrib(@),
                           !.Default = EscapeAttrib(@), !.Description = EscapeAttrib(@),
                           !.text = EscapeText(@)]]

\* for config in root.findall('Config'): if mode == 'env': env_vars[target] = default
RECURSIVE TemplateEnv(_, _)
TemplateEnv(configs, acc) ==
    IF configs = <<>> THEN acc
    ELSE TemplateEnv(Tail(configs),
                     IF Head(configs).Mode = "env"
                     THEN DictSet(acc, Head(configs).Target, Head(configs).Default)
                     ELSE acc)

\* get_template_env_vars without the Mode test: every Config counts
get_template_vars_any_mode(configs) ==
    [i \in DOMAIN configs |-> [k |-> configs[i].Target, v |-> configs[i].Default]]

get_template_env_vars(configs) == TemplateEnv(configs, <<>>)

DescriptionPrefix == <<"Environment variable: ">>

\* add_env_var_to_template forgetting config.set('Mode', 'env')
add_env_var_without_mode(configs, var_name, var_value, description, display, required, mask) ==
    Append(configs,
           Config(var_name, var_name, var_value, "",
                  IF description # <<>> THEN description
                  ELSE DescriptionPrefix \o var_name,
                  "Variable", display, required, mask, var_value))

\* add_env_var_to_template with root.insert(0, config) in place of
\* ET.SubElement(root, 'Config'): the new element becomes the first child
add_env_var_at_front(configs, var_name, var_value, description, display, required, mask) ==
    <<Config(var_name, var_name, var_value, "env",
             IF description # <<>> THEN description
             ELSE DescriptionPrefix \o var_name,
             "Variable", display, required, mask, var_value)>> \o configs

\* ET.SubElement(root, 'Config') and the attributes set on it
add_env_var_to_template(configs, var_name, var_value, description, display, required, mask) ==
    Append(configs,
           Config(var_name, var_name, var_value, "env",
                  IF description # <<>> THEN description
                  ELSE DescriptionPrefix \o var_name,
                  "Variable", display, required, mask, var_value))

----------------------------------------------------------------------------
(* update_template: diff and classification *)

TZ   == <<"T", "Z">>
PUID == <<"P", "U", "I", "D">>
PGID == <<"P", "G", "I", "D">>

\* if var_name in ['TZ', 'PUID', 'PGID']: continue
ExcludedNames == {TZ, PUID, PGID}

\* for var_name, var_value in upstream_env_vars.items(): ... new_vars.append(...)
RECURSIVE NewVarsLoop(_, _, _)
NewVarsLoop(upstream, template_env_vars, acc) ==
    IF upstream = <<>> THEN acc
    ELSE LET var == Head(upstream) IN
         NewVarsLoop(Tail(upstream), template_env_vars,
                     IF var.k \in ExcludedNames THEN acc
                     ELSE IF var.k \notin DictKeys(template_env_vars)
                          THEN Append(acc, var)
                     ELSE acc)

find_new_vars(upstream_env_vars, template_env_vars) ==
    NewVarsLoop(upstream_env_vars, template_env_vars, <<>>)

LowerCase == <<"a", "b", "c", "d", "e", "f", "g", "h", "i", "j", "k", "l", "m", "n", "o", "p", "q", "r", "s", "t", "u", "v", "w", "x", "y", "z">>
UpperCase == <<"A", "B", "C", "D", "E", "F", "G", "H", "I", "J", "K", "L", "M", "N", "O", "P", "Q", "R", "S", "T", "U", "V", "W", "X", "Y", "Z">>

\* str.upper()
Upper(s) ==
    [i \in DOMAIN s |->
        IF \E j \in DOMAIN LowerCase : LowerCase[j] = s[i]
        THEN UpperCase[CHOOSE j \in DOMAIN LowerCase : LowerCase[j] = s[i]]
        ELSE s[i]]

\* keyword in s
Contains(s, keyword) ==
    \E i \in 1..(Len(s) - Len(keyword) + 1) :
        SubSeq(s, i, i + Len(keyword) - 1) = keyword

MaskKeywords == { <<"S", "E", "C", "R", "E", "T">>,
                  <<"P", "A", "S", "S", "W", "O", "R", "D">>,
                  <<"K", "E", "Y">>,
                  <<"T", "O", "K", "E", "N">>,
                  <<"A", "P", "I">> }

\* the masking rule without .upper(): keyword in var_name
mask_of_case_sensitive(var_name) ==
    IF \E keyword \in MaskKeywords : Contains(var_name, keyword)
    THEN "true" ELSE "false"

mask_of(var_name) ==
    IF \E keyword \in MaskKeywords : Contains(Upper(var_name), keyword)
    THEN "true" ELSE "false"

\* required = "true" whatever the default
required_always(var_value) == "true"

required_of(var_value) == IF var_value = <<>> THEN "true" ELSE "false"

\* for var_name, var_value in new_vars: ... add_env_var_to_template(...)
RECURSIVE AddNewVars(_, _)
AddNewVars(configs, new_vars) ==
    IF new_vars = <<>> THEN configs
    ELSE LET var_name  == Head(new_vars).k
             var_value == Head(new_vars).v
         IN  AddNewVars(
                 add_env_var_to_template(configs, var_name, var_value,
                                         DescriptionPrefix \o var_name, "advanced",
                                         required_of(var_value), mask_of(var_name)),
                 Tail(new_vars))

\* tree.write(xml_path, ...): w is what the file system lets happen.
\*   "ok":          the file is replaced by the serialized tree
\*   "open_fails":  open() raises before the file is touched
\*   "partial":     the file is truncated by open() and the write then raises
WriteResults == {"ok", "open_fails", "partial"}

tree_write(old, new, w) ==
    CASE w = "ok"         -> [file |-> new, exc |-> ""]
      [] w = "open_fails" -> [file |-> old, exc |-> "OSError"]
      [] OTHER            -> [file |-> CorruptFile, exc |-> "OSError"]

\* the result of one call: ret is the returned bool (meaningless when exc # ""),
\* exc the exception that left the function, file the file afterwards,
\* write what tree.write did ("none" when it was not reached)
Outcome(outcome, ret, exc, file, new_vars, write) ==
    [outcome |-> outcome, ret |-> ret, exc |-> exc, file |-> file,
     new_vars |-> new_vars, write |-> write]

\* update_template without the xml_path.exists() test
xml_path_always_exists(file) == TRUE

xml_path_exists(file) == file.kind # "missing"

\* ET.parse(xml_path): the exception it raises, "" when it returns the tree
parse_template_xml(file) ==
    CASE file.kind = "xml"     -> ""
      [] file.kind = "corrupt" -> "ParseError"
      [] OTHER                 -> "FileNotFoundError"

update_template(file, resp, w) ==
    IF ~xml_path_exists(file)
    THEN Outcome("not_found", FALSE, "", file, <<>>, "none")
    ELSE LET compose_data == fetch_docker_compose(resp) IN
    IF ~DocTruthy(compose_data)
    THEN Outcome("fetch_failed", FALSE, "", file, <<>>, "none")
    ELSE LET service_config == extract_service_config(compose_data) IN
    IF service_config.st = "raise"
    THEN Outcome("error", FALSE, service_config.exc, file, <<>>, "none")
    ELSE IF service_config.st = "none"
    THEN Outcome("no_service", FALSE, "", file, <<>>, "none")
    ELSE IF parse_template_xml(file) # ""
    THEN Outcome("error", FALSE, parse_template_xml(file), file, <<>>, "none")
    ELSE LET upstream_env_vars == service_config.environment
             root              == ParseConfigs(file.configs)
             template_env_vars == get_template_env_vars(root)
             new_vars          == find_new_vars(upstream_env_vars, template_env_vars)
         IN
         IF new_vars # <<>>
         THEN LET written ==
                      tree_write(file,
                                 XmlFile(SerializeConfigs(AddNewVars(root, new_vars))), w)
              IN  IF written.exc = ""
                  THEN Outcome("updated", TRUE, "", written.file, new_vars, w)
                  ELSE Outcome("error", FALSE, written.exc, written.file, new_vars, w)
         ELSE Outcome("up_to_date", FALSE, "", file, <<>>, "none")

----------------------------------------------------------------------------
(* the inputs of the model *)

\* TEMPLATE_CONFIGS, in the order main iterates it
TemplateNames == <<"Bambuddy", "Scan2Target", "Netzbremse", "RedditWSBCrawler">>

API_KEY == <<"A", "P", "I", "_", "K", "E", "Y">>
PORT    == <<"P", "O", "R", "T">>
FOO     == <<"F", "O", "O">>
DEBUG   == <<"D", "E", "B", "U", "G">>
LATE    == <<"L", "A", "T", "E">>

KV(k, v) == [k |-> k, v |-> v]

\* environment: {TZ: ${TZ:-UTC}, API_KEY: ${API_KEY}, PORT: "8080"}
ScenarioService ==
    Service("dict",
            <<KV(TZ, StrV(<<"$", "{", "T", "Z", ":", "-", "U", "T", "C", "}">>)),
              KV(API_KEY, StrV(<<"$", "{", "A", "P", "I", "_", "K", "E", "Y", "}">>)),
              KV(PORT, StrV(<<"8", "0", "8", "0">>))>>,
            <<>>, <<"8080:8080">>, <<"./data:/data">>)

\* environment: ["FOO=bar", "BAZ", "PGID=100", "A=b=c", "FOO=${X:-baz}",
\*               'R&D="<1>"']
ListService ==
    Service("list", <<>>,
            <<<<"F", "O", "O", "=", "b", "a", "r">>,
              <<"B", "A", "Z">>,
              <<"P", "G", "I", "D", "=", "1", "0", "0">>,
              <<"A", "=", "b", "=", "c">>,
              <<"F", "O", "O", "=", "$", "{", "X", ":", "-", "b", "a", "z", "}">>,
              <<"R", "&", "D", "=", "\"", "<", "1", ">", "\"">>>>,
            <<>>, <<>>)

\* environment: {PUID: 1000, DEBUG: 0, API_KEY: null}
TypedService ==
    Service("dict",
            <<KV(PUID, IntV(1000)), KV(DEBUG, IntV(0)), KV(API_KEY, NoneV)>>,
            <<>>, <<"80:80">>, <<>>)

\* a second service, which declares a setting of its own
LateService ==
    Service("dict", <<KV(LATE, StrV(<<"x">>))>>, <<>>, <<"5432:5432">>, <<"db:/db">>)

\* a service without an environment key
PortsOnlyService == Service("absent", <<>>, <<>>, <<"9000:9000">>, <<"./cfg:/cfg">>)

Resp(st, body) == [st |-> st, body |-> body]

\* what the upstream URL may answer
Responses ==
    { Resp("exc", NoneDoc),
      Resp("404", MapDoc(FALSE, TRUE, <<ScenarioService>>)),
      Resp("200", NoneDoc),
      Resp("200", BadYaml),
      Resp("200", MapDoc(TRUE, FALSE, <<>>)),
      Resp("200", MapDoc(TRUE, TRUE, <<>>)),
      Resp("200", MapDoc(TRUE, TRUE, <<ScenarioService>>)),
      Resp("200", MapDoc(FALSE, TRUE, <<ListService>>)),
      Resp("200", MapDoc(TRUE, TRUE, <<TypedService, LateService>>)),
      Resp("200", MapDoc(TRUE, TRUE, <<PortsOnlyService, LateService>>)) }

\* a template without Config elements, and one that declares PORT as a port
\* mapping and API_KEY and FOO as environment variables
EmptyTemplate == XmlFile(<<>>)
CuratedTemplate ==
    XmlFile(<<Config(<<"W", "e", "b", "U", "I">>, PORT, <<"8", "0", "8", "0">>, "tcp", <<">", "1", "0", "2", "3">>, "Port", "always", "true", "false", <<"8", "0", "8", "0">>),
              Config(<<"K", "e", "y">>, API_KEY, <<>>, "env", <<>>, "Variable", "always", "true", "true", <<>>),
              Config(FOO, FOO, <<"x">>, "env", <<>>, "Variable", "advanced", "false", "false", <<"x">>)>>)

LocalFiles == {MissingFile, CorruptFile, EmptyTemplate, CuratedTemplate}

Chars == {"$", "{", "}", ":", "-", "X", "a"}
Strings(S, n) == UNION { [1..k -> S] : k \in 0..n }

Idents       == { <<"X">>, <<"X", "a">> }
Separators   == { <<":", "-">>, <<"-">> }
DefaultChars == {"a", "-", ":"}

\* ${X:-D} and ${X-D}
Placeholder(X, sep, D) == <<"$", "{">> \o X \o sep \o D \o <<"}">>

Placeholders ==
    { Placeholder(X, sep, D) :
        X \in Idents, sep \in Separators, D \in Strings(DefaultChars, MaxDefaultLen) }

ExtractInputs ==
    { StrV(s) : s \in Strings(Chars, MaxStrLen) \cup Placeholders }
        \cup { IntV(n) : n \in 0..MaxInt }
        \cup { BoolV(b) : b \in BOOLEAN }
        \cup { NoneV }

----------------------------------------------------------------------------
(* main *)

\* no call of extract_default_value, and no classification, is under test
ExtractIdle  == value = NoneV /\ result = <<>> /\ epc = "idle"
ClassifyIdle == entry = KV(<<>>, <<>>) /\ record = <<>> /\ cpc = "idle"

SurfaceIdle ==
    /\ svc = Service("absent", <<>>, <<>>, <<>>, <<>>)
    /\ surface = <<>>
    /\ spc = "idle"

\* the validator is not running
ValidateIdle ==
    /\ templates = <<>>
    /\ vidx = 1
    /\ has_errors = FALSE
    /\ templates_checked = 0
    /\ checked = <<>>
    /\ vexit = -1
    /\ vpc = "idle"

NoIteration ==
    [project |-> "", before |-> MissingFile, resp |-> Resp("exc", NoneDoc),
     outcome |-> "none", exc |-> "", new_vars |-> <<>>, write |-> "none"]

Init ==
    /\ files \in [{TemplateNames[i] : i \in DOMAIN TemplateNames} -> LocalFiles]
    /\ pc = "loop"
    /\ idx = 1
    /\ updated_templates = <<>>
    /\ exit_status = -1
    /\ last = NoIteration
    /\ visited = <<>>
    /\ modified = {}
    /\ ExtractIdle
    /\ ClassifyIdle
    /\ SurfaceIdle
    /\ ValidateIdle

\* main with `except OSError` in place of `except Exception`
main_catches_os_errors_only(exc) == exc \in {"OSError", "FileNotFoundError"}

\* except Exception as e: every exception update_template raises is caught
main_catches(exc) == TRUE

\* one pass of the for loop: try: update_template(...) except Exception: ...
LoopIteration ==
    /\ pc = "loop"
    /\ idx <= Len(TemplateNames)
    /\ \E resp \in Responses, w \in WriteResults :
         \E template_name \in {TemplateNames[idx]} :
           \E r \in {update_template(files[template_name], resp, w)} :
               /\ files' = [files EXCEPT ![template_name] = r.file]
               /\ visited' = Append(visited, template_name)
               /\ modified' = IF r.file # files[template_name]
                               THEN modified \cup {template_name}
                               ELSE modified
               /\ last' = [project |-> template_name, before |-> files[template_name],
                           resp |-> resp, outcome |-> r.outcome, exc |-> r.exc,
                           new_vars |-> r.new_vars, write |-> r.write]
               /\ IF r.exc = ""
                  THEN /\ updated_templates' =
                              IF r.ret THEN Append(updated_templates, template_name)
                              ELSE updated_templates
                       /\ idx' = idx + 1
                       /\ UNCHANGED <<pc, exit_status>>
                  ELSE IF main_catches(r.exc)
                  THEN /\ idx' = idx + 1
                       /\ UNCHANGED <<pc, exit_status, updated_templates>>
                  ELSE \* an uncaught exception ends the process
                       /\ pc' = "crashed"
                       /\ exit_status' = 1
                       /\ UNCHANGED <<idx, updated_templates>>
    /\ UNCHANGED <<extractVars, classifyVars, surfaceVars, validateVars>>

\* after the loop: the summary, then sys.exit(0) in both branches
Summary ==
    /\ pc = "loop"
    /\ idx > Len(TemplateNames)
    /\ pc' = "exited"
    /\ exit_status' = 0
    /\ UNCHANGED <<files, idx, updated_templates, last, visited, modified>>
    /\ UNCHANGED <<extractVars, classifyVars, surfaceVars, validateVars>>

Next == LoopIteration \/ Summary

Spec == Init /\ [][Next]_vars

\* the runs over templates that are missing, not well-formed or curated
InitFair == Init /\ \A n \in DOMAIN files : files[n] # EmptyTemplate

\* the loop body and the summary are straight-line code that blocks on nothing
\* but a fetch with a timeout: once enabled they run
FairSpec ==
    InitFair /\ [][Next]_vars /\ WF_vars(LoopIteration) /\ WF_vars(Summary)

----------------------------------------------------------------------------
(* extract_default_value on its own *)

\* main is not running
MainIdle ==
    /\ files = [n \in {TemplateNames[i] : i \in DOMAIN TemplateNames} |-> MissingFile]
    /\ pc = "idle"
    /\ idx = 1
    /\ updated_templates = <<>>
    /\ exit_status = -1
    /\ last = NoIteration
    /\ visited = <<>>
    /\ modified = {}

InitExtract ==
    /\ MainIdle
    /\ ClassifyIdle
    /\ SurfaceIdle
    /\ ValidateIdle
    /\ value \in ExtractInputs
    /\ result = <<>>
    /\ epc = "call"

CallExtract ==
    /\ epc = "call"
    /\ result' = extract_default_value(value)
    /\ epc' = "done"
    /\ UNCHANGED value
    /\ UNCHANGED <<mainVars, classifyVars, surfaceVars, validateVars>>

NextExtract == CallExtract

SpecExtract == InitExtract /\ [][NextExtract]_vars

----------------------------------------------------------------------------
(* the classification of one new variable on its own *)

Lower(s) ==
    [i \in DOMAIN s |->
        IF \E j \in DOMAIN UpperCase : UpperCase[j] = s[i]
        THEN LowerCase[CHOOSE j \in DOMAIN UpperCase : UpperCase[j] = s[i]]
        ELSE s[i]]

NameChars == {"A", "P", "I", "p", "i", "_"}

\* the keywords in capitals, in small letters and capitalized
KeywordSpellings ==
    UNION { {k, Lower(k), <<k[1]>> \o Lower(Tail(k))} : k \in MaskKeywords }

\* a keyword without its last letter, and one split by an underscore
NearMisses ==
    UNION { {SubSeq(k, 1, Len(k) - 1), <<k[1], "_">> \o Tail(k)} : k \in MaskKeywords }

Affixes == { <<>>, <<"_">>, <<"D", "B", "_">>, <<"x">>, <<"s">> }

ClassifyNames ==
    Strings(NameChars, MaxNameLen)
        \cup { pre \o core \o post :
                 pre \in Affixes, core \in KeywordSpellings \cup NearMisses,
                 post \in Affixes }

ClassifyValues == { <<>>, <<"x">> }

InitClassify ==
    /\ MainIdle
    /\ ExtractIdle
    /\ SurfaceIdle
    /\ ValidateIdle
    /\ entry \in { KV(n, v) : n \in ClassifyNames, v \in ClassifyValues }
    /\ record = <<>>
    /\ cpc = "call"

\* the body of `for var_name, var_value in new_vars:` for one new variable
CallClassify ==
    /\ cpc = "call"
    /\ record' = AddNewVars(<<>>, <<entry>>)
    /\ cpc' = "done"
    /\ UNCHANGED entry
    /\ UNCHANGED <<mainVars, extractVars, surfaceVars, validateVars>>

NextClassify == CallClassify

SpecClassify == InitClassify /\ [][NextClassify]_vars

----------------------------------------------------------------------------
(* extract_service_config on its own *)

SurfaceNames == { <<"A">>, <<"B">>, <<"C", "_", "D">> }

\* raw values of a mapping-form environment, as yaml.safe_load delivers them
SurfaceValues ==
    { StrV(<<>>), StrV(<<"x">>), StrV(<<"b", "=", "c">>),
      StrV(<<"$", "{", "X", ":", "-", "d", "}">>),
      IntV(0), IntV(1), BoolV(FALSE), BoolV(TRUE), NoneV }

\* items of a list-form environment
SurfaceItems ==
    { <<"A", "=", "x">>, <<"A">>, <<"A", "=", "b", "=", "c">>, <<"A", "=">>,
      <<"B", "=", "$", "{", "X", ":", "-", "d", "}">>, <<"A", "=", "y">>,
      <<"=", "x">>, <<"B", "=", "0">> }

\* a mapping has each key once
MappingEnvs ==
    { env \in UNION { [1..n -> { KV(k, v) : k \in SurfaceNames, v \in SurfaceValues }] :
                         n \in 0..MaxEnvLen } :
        \A i, j \in DOMAIN env : env[i].k = env[j].k => i = j }

ListEnvs == UNION { [1..n -> SurfaceItems] : n \in 0..MaxEnvLen }

InitSurface ==
    /\ MainIdle
    /\ ExtractIdle
    /\ ClassifyIdle
    /\ ValidateIdle
    /\ svc \in { Service("dict", env, <<>>, <<>>, <<>>) : env \in MappingEnvs }
                     \cup { Service("list", <<>>, env, <<>>, <<>>) : env \in ListEnvs }
    /\ surface = <<>>
    /\ spc = "call"

\* extract_service_config on a document whose first service is svc
CallSurface ==
    /\ spc = "call"
    /\ surface' = extract_service_config(MapDoc(FALSE, TRUE, <<svc>>)).environment
    /\ spc' = "done"
    /\ UNCHANGED svc
    /\ UNCHANGED <<mainVars, extractVars, classifyVars, validateVars>>

NextSurface == CallSurface

SpecSurface == InitSurface /\ [][NextSurface]_vars

----------------------------------------------------------------------------
(* validate-templates.py *)

\* a child element of the root with its text (None reads as ''), or no such
\* element
NoElement  == [present |-> FALSE, text |-> <<>>]
Elem(text) == [present |-> TRUE, text |-> text]

\* root.findtext(tag, ''): the text of the element, '' when there is none
findtext(element) == IF element.present THEN element.text ELSE <<>>

Whitespace == {" ", "\t", "\n", "\r"}

\* str.strip()
RECURSIVE LStrip(_)
LStrip(s) == IF s # <<>> /\ Head(s) \in Whitespace THEN LStrip(Tail(s)) ELSE s

RECURSIVE RStrip(_)
RStrip(s) ==
    IF s # <<>> /\ s[Len(s)] \in Whitespace THEN RStrip(SubSeq(s, 1, Len(s) - 1)) ELSE s

strip(s) == RStrip(LStrip(s))

\* str.startswith(prefix)
startswith(s, prefix) == Len(s) >= Len(prefix) /\ SubSeq(s, 1, Len(prefix)) = prefix

Https == <<"h", "t", "t", "p", "s", ":", "/", "/">>

\* a template file as ET.parse finds it: not well-formed, or a root with or
\* without Icon, Name and Repository children
CorruptTemplate == [kind |-> "corrupt", Icon |-> NoElement, Name |-> NoElement,
                    Repository |-> NoElement]
Template(icon, name, repository) ==
    [kind |-> "xml", Icon |-> icon, Name |-> name, Repository |-> repository]

\* validate_template: the pair (errors, warnings)
validate_template(xml) ==
    IF xml.kind # "xml"
    THEN [errors |-> <<"XML parsing error">>, warnings |-> <<>>]
    ELSE LET icon       == findtext(xml.Icon)
             name       == findtext(xml.Name)
             repository == findtext(xml.Repository)
         IN  [errors |->
                  (IF strip(icon) = <<>> THEN <<"Missing or empty Icon URL">> ELSE <<>>)
                  \o (IF strip(name) = <<>> THEN <<"Missing or empty Name field">> ELSE <<>>)
                  \o (IF strip(repository) = <<>>
                      THEN <<"Missing or empty Repository field">> ELSE <<>>),
              warnings |->
                  IF strip(icon) # <<>> /\ ~startswith(icon, Https)
                  THEN <<"Icon URL should use HTTPS">> ELSE <<>>]

BlankTemplate == <<"b", "l", "a", "n", "k", "-", "t", "e", "m", "p", "l", "a", "t", "e">>

\* if 'blank-template' in xml_file.name: continue
is_skipped(file_name) == Contains(file_name, BlankTemplate)

\* has_errors = True for a template that has warnings only, too
flags_any_finding(findings) == findings.errors # <<>> \/ findings.warnings # <<>>

\* if errors: has_errors = True
flags_errors(findings) == findings.errors # <<>>

\* the inputs: file names and file contents
BlankName == BlankTemplate \o <<".", "x", "m", "l">>
AppName   == <<"m", "y", "-", "A", "p", "p", ".", "x", "m", "l">>

SecureIcon   == Elem(Https \o <<"i">>)
InsecureIcon == Elem(<<"h", "t", "t", "p", ":", "/", "/", "i">>)

TemplateContents ==
    { Template(SecureIcon, Elem(<<"n">>), Elem(<<"r">>)),
      Template(InsecureIcon, Elem(<<"n">>), Elem(<<"r">>)),
      Template(Elem(<<" ">> \o Https \o <<"i">>), Elem(<<"n">>), Elem(<<"r">>)),
      Template(NoElement, Elem(<<"n">>), Elem(<<"r">>)),
      Template(Elem(<<" ", "\n">>), Elem(<<"n">>), Elem(<<"r">>)),
      Template(SecureIcon, Elem(<<>>), Elem(<<"r">>)),
      Template(InsecureIcon, Elem(<<"n">>), NoElement),
      Template(NoElement, NoElement, NoElement),
      CorruptTemplate }

TemplateFiles ==
    { [name |-> n, xml |-> x] : n \in {BlankName, AppName}, x \in TemplateContents }

InitValidate ==
    /\ MainIdle
    /\ ExtractIdle
    /\ ClassifyIdle
    /\ SurfaceIdle
    /\ templates \in UNION { [1..n -> TemplateFiles] : n \in 0..MaxTemplates }
    /\ vidx = 1
    /\ has_errors = FALSE
    /\ templates_checked = 0
    /\ checked = <<>>
    /\ vexit = -1
    /\ vpc = "loop"

\* one pass of `for xml_file in templates_dir.rglob('*.xml')`
ValidateIteration ==
    /\ vpc = "loop"
    /\ vidx <= Len(templates)
    /\ vidx' = vidx + 1
    /\ IF is_skipped(templates[vidx].name)
       THEN UNCHANGED <<has_errors, templates_checked, checked>>
       ELSE \E findings \in {validate_template(templates[vidx].xml)} :
              /\ templates_checked' = templates_checked + 1
              /\ checked' = Append(checked, vidx)
              /\ has_errors' = IF flags_errors(findings) THEN TRUE ELSE has_errors
    /\ UNCHANGED <<templates, vexit, vpc>>
    /\ UNCHANGED <<mainVars, extractVars, classifyVars, surfaceVars>>

\* after the loop: sys.exit(1) if has_errors else sys.exit(0)
ValidateExit ==
    /\ vpc = "loop"
    /\ vidx > Len(templates)
    /\ vpc' = "exited"
    /\ vexit' = IF has_errors THEN 1 ELSE 0
    /\ UNCHANGED <<templates, vidx, has_errors, templates_checked, checked>>
    /\ UNCHANGED <<mainVars, extractVars, classifyVars, surfaceVars>>

NextValidate == ValidateIteration \/ ValidateExit

SpecValidate == InitValidate /\ [][NextValidate]_vars

----------------------------------------------------------------------------
(* Properties *)

InList(seq, x) == \E i \in DOMAIN seq : seq[i] = x

\* the most recent iteration was the one of project last.project, and the for
\* loop went on to the project after it
BatchContinued ==
    /\ pc # "crashed"
    /\ visited # <<>>
    /\ visited[Len(visited)] = last.project
    /\ idx = Len(visited) + 1

\* C1: Idempotence of the reconciler.  Whenever update_template has returned
\* for a project (having appended entries and written the file, or not), a
\* second call against the same response and the file the first call left
\* computes no new entry, does not touch the file and returns False,
\* whatever the file system would let a write do.
C1_Idempotent ==
    (last.outcome # "none" /\ last.exc = "") =>
        \A w \in WriteResults :
            \E again \in {update_template(files[last.project], last.resp, w)} :
                /\ again.new_vars = <<>>
                /\ again.write = "none"
                /\ again.file = files[last.project]
                /\ again.exc = ""
                /\ again.ret = FALSE

\* a first run that appended entries and wrote the file
C1_Witness ==
    /\ last.outcome = "updated"
    /\ Len(last.new_vars) >= 2
    /\ files[last.project].kind = "xml"
    /\ Len(files[last.project].configs) = Len(last.before.configs) + Len(last.new_vars)

\* C2: Batch forward progress.  Whatever each project's outcome, main never
\* aborts, takes the projects of the table one by one in table order, and the
\* process ends with exit status 0 after having taken all of them.
C2_ForwardProgress ==
    /\ [](/\ pc # "crashed"
          /\ Len(visited) <= Len(TemplateNames)
          /\ visited = SubSeq(TemplateNames, 1, Len(visited))
          /\ (pc = "exited" => visited = TemplateNames /\ exit_status = 0))
    /\ <>(pc = "exited")

\* a finished run whose first project had no file and whose last project
\* raised an exception
C2_Witness ==
    /\ pc = "exited"
    /\ exit_status = 0
    /\ files[TemplateNames[1]] = MissingFile
    /\ last.exc = "ParseError"
    /\ last.project = TemplateNames[Len(TemplateNames)]

\* C3: Fetch failure is a skip.  When the fetch for a project answers with a
\* status other than 200 or raises, the project's file is left as it was, no
\* write is attempted, the project is not listed as updated and the loop goes
\* on to the next project.
C3_FetchFailureSkips ==
    (last.outcome # "none" /\ last.before.kind # "missing" /\ last.resp.st # "200") =>
        /\ last.outcome = "fetch_failed"
        /\ last.write = "none"
        /\ files[last.project] = last.before
        /\ last.project \notin modified
        /\ ~InList(updated_templates, last.project)
        /\ BatchContinued

\* an HTTP 404 whose body declares settings the template lacks, for a project
\* that is not the last of the table
C3_Witness ==
    /\ last.resp.st = "404"
    /\ last.resp.body.services # <<>>
    /\ last.before = EmptyTemplate
    /\ last.outcome = "fetch_failed"
    /\ pc = "loop"
    /\ idx <= Len(TemplateNames)

\* the names the first service of a document declares
DeclaredNames(doc) ==
    LET service == doc.services[1] IN
    CASE service.env_form = "dict" ->
             { service.env_dict[i].k : i \in DOMAIN service.env_dict }
      [] service.env_form = "list" ->
             { SubSeq(service.env_list[i], 1, IndexFrom(service.env_list[i], "=", 1) - 1) :
                 i \in { j \in DOMAIN service.env_list :
                           IndexFrom(service.env_list[j], "=", 1) # 0 } }
      [] OTHER -> {}

\* the names that are Target of a Config with Mode 'env'
EnvTargets(configs) ==
    { configs[i].Target : i \in { j \in DOMAIN configs : configs[j].Mode = "env" } }

\* the names a reconciliation has to add
MissingNames(doc, configs) ==
    { n \in DeclaredNames(doc) : n \notin {TZ, PUID, PGID} /\ n \notin EnvTargets(configs) }

\* the names of the Config elements of `after` behind the ones of `before`
AppendedNames(before, after) ==
    { after[i].Name : i \in (Len(before) + 1)..Len(after) }

\* C4: Reconciliation result.  Whenever update_template gets as far as the
\* diff, the names it finds new are exactly the declared names that are not
\* TZ, PUID or PGID and are not Target of a local Config with Mode 'env';
\* when it writes, these are exactly the names of the appended elements, and
\* when there is none the file is not written.
C4_ReconciliationResult ==
    (last.outcome \in {"updated", "up_to_date"} \/ last.write # "none") =>
        \E missing \in {MissingNames(last.resp.body, ParseConfigs(last.before.configs))} :
            /\ { last.new_vars[i].k : i \in DOMAIN last.new_vars } = missing
            /\ missing \cap {TZ, PUID, PGID} = {}
            /\ last.outcome = "updated" =>
                   /\ files[last.project].kind = "xml"
                   /\ AppendedNames(ParseConfigs(last.before.configs),
                                    ParseConfigs(files[last.project].configs)) = missing
                   /\ missing # {}
            /\ last.outcome = "up_to_date" =>
                   /\ missing = {}
                   /\ files[last.project] = last.before

\* upstream declares TZ, API_KEY and PORT; the template has API_KEY as an
\* environment variable and PORT as a port mapping: PORT alone is added
C4_Witness ==
    /\ last.outcome = "updated"
    /\ last.before = CuratedTemplate
    /\ TZ \in DeclaredNames(last.resp.body)
    /\ API_KEY \in DeclaredNames(last.resp.body)
    /\ AppendedNames(ParseConfigs(last.before.configs),
                     ParseConfigs(files[last.project].configs)) = {PORT}

\* C5: Value Extractor, explicit default.  For every identifier X and every
\* default segment D, also an empty one and one that holds '-' or ':',
\* extract_default_value returns exactly D for ${X:-D} and for ${X-D}.
C5_ExplicitDefault ==
    epc = "done" =>
        \A X \in Idents, sep \in Separators, D \in Strings(DefaultChars, MaxDefaultLen) :
            value = StrV(Placeholder(X, sep, D)) => result = D

\* the most liberal reading of ID: any characters but ':' and '}'
IsIdent(x) == x # <<>> /\ \A i \in DOMAIN x : x[i] \notin {":", "}"}

\* s is ${ID}, ${ID:-DEFAULT} or ${ID-DEFAULT}, with any DEFAULT at all
IsPlaceholderForm(s) ==
    /\ Len(s) >= 4
    /\ s[1] = "$" /\ s[2] = "{" /\ s[Len(s)] = "}"
    /\ \E k \in 1..(Len(s) - 3) :
           /\ IsIdent(SubSeq(s, 3, 2 + k))
           /\ \/ 3 + k = Len(s)
              \/ s[3 + k] = "-"
              \/ s[3 + k] = ":" /\ 4 + k < Len(s) /\ s[4 + k] = "-"

\* C6: Value Extractor, pass-through.  Every non-empty string that is not
\* exactly ${ID:-DEFAULT}, ${ID-DEFAULT} or ${ID} - malformed placeholders and
\* placeholders with text before or after them included - is returned
\* unchanged.
C6_PassThrough ==
    (epc = "done" /\ value.t = "str" /\ value.s # <<>> /\ ~IsPlaceholderForm(value.s)) =>
        result = value.s

\* C7: Value Extractor, non-string literals.  A number or a boolean, 0 and
\* false included, is returned in its string form, which is never empty.
C7_NonStringLiterals ==
    (epc = "done" /\ value.t \in {"int", "bool"}) =>
        /\ result = PyStr(value)
        /\ result # <<>>

\* C8: NoServiceFound.  A fetched document without a 'services' key and one
\* whose services mapping is empty both end in the no-service outcome, which
\* is a skip: no exception, no write, the file as it was, the project not
\* listed, the loop going on.
C8_NoServiceFound ==
    (/\ last.outcome # "none"
     /\ last.before.kind # "missing"
     /\ last.resp.st = "200"
     /\ last.resp.body.t = "map"
     /\ last.resp.body.has_other
     /\ (~last.resp.body.has_services \/ last.resp.body.services = <<>>)) =>
        /\ last.outcome = "no_service"
        /\ last.exc = ""
        /\ last.write = "none"
        /\ files[last.project] = last.before
        /\ ~InList(updated_templates, last.project)
        /\ BatchContinued

\* the response carries a document with a first service
HasFirstService(resp) ==
    /\ resp.st = "200"
    /\ resp.body.t = "map"
    /\ resp.body.has_services
    /\ resp.body.services # <<>>

\* C9: MalformedLocalDescriptor.  A project whose file is missing or not
\* well-formed is skipped without a write and the loop goes on; a missing file
\* ends in the 'not found' outcome, a file that is not well-formed never does,
\* and ends in the parse error whenever the remote document has a service.
C9_MalformedLocalDescriptor ==
    (last.outcome # "none" /\ last.before.kind \in {"missing", "corrupt"}) =>
        /\ last.write = "none"
        /\ files[last.project] = last.before
        /\ last.project \notin modified
        /\ ~InList(updated_templates, last.project)
        /\ BatchContinued
        /\ last.before.kind = "missing" => last.outcome = "not_found" /\ last.exc = ""
        /\ last.before.kind = "corrupt" =>
               /\ last.outcome # "not_found"
               /\ last.exc # "FileNotFoundError"
               /\ HasFirstService(last.resp) =>
                      last.outcome = "error" /\ last.exc = "ParseError"

\* the first project had no file, the second a file that is not well-formed
\* and a remote document to reconcile it with
C9_Witness ==
    /\ Len(visited) = 2
    /\ files[TemplateNames[1]] = MissingFile
    /\ last.project = TemplateNames[2]
    /\ last.before = CorruptFile
    /\ last.exc = "ParseError"
    /\ pc = "loop"

\* C10: Summary faithfulness.  At the end of a run a project is listed as
\* updated exactly if its file on disk was changed during the run.
C10_SummaryFaithful ==
    pc = "exited" =>
        \A i \in DOMAIN TemplateNames :
            InList(updated_templates, TemplateNames[i]) <=> TemplateNames[i] \in modified

\* the names a service's environment declares, in the order in which each
\* is met first in the document
RECURSIVE FirstOccurrences(_, _)
FirstOccurrences(names, acc) ==
    IF names = <<>> THEN acc
    ELSE FirstOccurrences(Tail(names),
                          IF InList(acc, Head(names)) THEN acc
                          ELSE Append(acc, Head(names)))

\* the names of the items of a list-form environment that hold '='
RECURSIVE ItemNames(_)
ItemNames(items) ==
    IF items = <<>> THEN <<>>
    ELSE (IF InList(Head(items), "=") THEN <<SplitKey(Head(items))>> ELSE <<>>)
             \o ItemNames(Tail(items))

DiscoveryOrder(service) ==
    FirstOccurrences(
        CASE service.env_form = "dict" ->
                 [i \in DOMAIN service.env_dict |-> service.env_dict[i].k]
          [] service.env_form = "list" -> ItemNames(service.env_list)
          [] OTHER -> <<>>,
        <<>>)

\* C11: Append-only mutation.  After update_template has written a file, the
\* Config elements of the file are the ones it held before - as many, in the
\* same order, each with the same attribute values and text, whatever its
\* Mode - followed by one element per new name, in the order in which the
\* first service of the remote document declares these names.
C11_AppendOnly ==
    last.outcome = "updated" =>
        /\ files[last.project].kind = "xml"
        /\ \E before \in {ParseConfigs(last.before.configs)},
              after \in {ParseConfigs(files[last.project].configs)} :
              \E appended \in {SubSeq(after, Len(before) + 1, Len(after))} :
                /\ Len(after) > Len(before)
                /\ SubSeq(after, 1, Len(before)) = before
                /\ [i \in DOMAIN appended |-> appended[i].Name] =
                       SelectSeq(DiscoveryOrder(last.resp.body.services[1]),
                                 LAMBDA n : n \in MissingNames(last.resp.body, before))

\* a template with a port mapping and two environment variables, whose file
\* holds a '>' that the write escapes, gets two elements appended
C11_Witness ==
    /\ last.outcome = "updated"
    /\ last.before = CuratedTemplate
    /\ files[last.project].configs # last.before.configs \o
           SubSeq(files[last.project].configs, 4, Len(files[last.project].configs))
    /\ Len(ParseConfigs(files[last.project].configs)) = 5
    /\ ParseConfigs(files[last.project].configs)[1].Mode = "tcp"

\* the words that mark a variable as sensitive
SensitiveWords == { <<"S", "E", "C", "R", "E", "T">>,
                    <<"P", "A", "S", "S", "W", "O", "R", "D">>,
                    <<"K", "E", "Y">>,
                    <<"T", "O", "K", "E", "N">>,
                    <<"A", "P", "I">> }

\* character c is the capital letter C or its small letter
SameLetter(c, C) ==
    \/ c = C
    \/ \E j \in DOMAIN UpperCase : UpperCase[j] = C /\ LowerCase[j] = c

\* word occurs in name at position i, whatever the case of the letters of name
OccursAt(name, word, i) ==
    /\ i + Len(word) - 1 <= Len(name)
    /\ \A j \in DOMAIN word : SameLetter(name[i + j - 1], word[j])

C13_NewEntryAttributes ==
    last.outcome = "updated" =>
        \E before \in {ParseConfigs(last.before.configs)},
           after \in {ParseConfigs(files[last.project].configs)} :
            /\ Len(after) = Len(before) + Len(last.new_vars)
            /\ \A i \in DOMAIN last.new_vars :
                 \E r \in {after[Len(before) + i]} :
                    /\ r.Name = last.new_vars[i].k
                    /\ r.Default = last.new_vars[i].v
                    /\ r.Required \in {"true", "false"}
                    /\ r.Required = "true" <=> r.Default = <<>>
                    /\ r.Display = "advanced"
                    /\ r.Mode = "env"
                    /\ r.Target = r.Name

\* a write that appended a variable without a default, which is required,
\* and one with a default, which is not
C13_Witness ==
    /\ last.outcome = "updated"
    /\ \E after \in {ParseConfigs(files[last.project].configs)} :
         \E i, j \in (Len(last.before.configs) + 1)..Len(after) :
            /\ after[i].Default = <<>> /\ after[i].Required = "true"
            /\ after[j].Default # <<>> /\ after[j].Required = "false"

\* the position of the first '=' of an item that holds one
FirstEq(item) ==
    CHOOSE p \in DOMAIN item : item[p] = "=" /\ \A q \in 1..(p - 1) : item[q] # "="

\* the last item of a list that holds '=' and has the name n in front of its
\* first '='
LastItemOf(items, n) ==
    items[Max({ i \in DOMAIN items :
                   InList(items[i], "=") /\ SubSeq(items[i], 1, FirstEq(items[i]) - 1) = n })]

\* the list form of a mapping-form environment: NAME=VALUE for every entry,
\* VALUE being the string form of the entry's value
ListFormOf(env) == [i \in DOMAIN env |-> env[i].k \o <<"=">> \o PyStr(env[i].v)]

\* C14: List-form settings.  The surface of a list-form environment has one
\* setting per name that stands in front of the first '=' of an item, in
\* the order of the names' first items, with the Value Extractor's result
\* for everything behind the first '=' of the name's last item; an item
\* without '=' adds nothing.  A mapping-form environment whose values are
\* strings, numbers or booleans has the same surface as its list form.
C14_ListFormSettings ==
    spc = "done" =>
        /\ svc.env_form = "list" =>
              /\ [i \in DOMAIN surface |-> surface[i].k] = DiscoveryOrder(svc)
              /\ \A i \in DOMAIN surface :
                    \E item \in {LastItemOf(svc.env_list, surface[i].k)} :
                        surface[i].v =
                            extract_default_value(
                                StrV(SubSeq(item, FirstEq(item) + 1, Len(item))))
        /\ (/\ svc.env_form = "dict"
            /\ \A i \in DOMAIN svc.env_dict : svc.env_dict[i].v.t # "none") =>
              surface =
                  extract_service_config(
                      MapDoc(FALSE, TRUE,
                             <<Service("list", <<>>, ListFormOf(svc.env_dict),
                                       <<>>, <<>>)>>)).environment

\* every character of s is white space
IsBlank(s) == \A i \in DOMAIN s : s[i] \in {" ", "\t", "\n", "\r"}

\* the file is not well-formed, or one of Icon, Name, Repository is missing
\* or empty
HasError(xml) ==
    \/ xml.kind = "corrupt"
    \/ \E element \in {xml.Icon, xml.Name, xml.Repository} :
           ~element.present \/ IsBlank(element.text)

\* the indices of the discovered files that are not the blank template
NonBlank == { i \in DOMAIN templates : ~Contains(templates[i].name, BlankTemplate) }

\* C15: Validator exit status.  The validator ends with status 1 exactly if
\* one of the discovered files other than the blank template is not
\* well-formed or lacks a non-empty Icon, Name or Repository, and with status
\* 0 otherwise, a non-HTTPS icon notwithstanding; until then every file other
\* than the blank template that the loop has passed has been checked, in
\* order, whatever the earlier ones had.
C15_ValidatorExitStatus ==
    /\ vpc = "loop" =>
          /\ vexit = -1
          /\ \A i \in NonBlank : i < vidx => InList(checked, i)
    /\ vpc = "exited" =>
          /\ vexit \in {0, 1}
          /\ vexit = 1 <=> \E i \in NonBlank : HasError(templates[i].xml)
          /\ \A i \in NonBlank : InList(checked, i)
          /\ \A i \in DOMAIN checked : checked[i] \in NonBlank
          /\ \A i, j \in DOMAIN checked : i < j => checked[i] < checked[j]
          /\ templates_checked = Cardinality(NonBlank)

\* the first file has no Icon, the blank template is skipped, and the last
\* file, which has a non-HTTPS icon only, is still checked: status 1
C15_Witness ==
    /\ vpc = "exited"
    /\ vexit = 1
    /\ Len(templates) = 3
    /\ templates[1] = [name |-> AppName, xml |-> Template(NoElement, Elem(<<"n">>), Elem(<<"r">>))]
    /\ templates[2].name = BlankName
    /\ templates[3] = [name |-> AppName, xml |-> Template(InsecureIcon, Elem(<<"n">>), Elem(<<"r">>))]
    /\ checked = <<1, 3>>

\* the Target values of the Config elements with Mode 'env', in document order
EnvTargetSeq(configs) ==
    LET envs == SelectSeq(configs, LAMBDA c : c.Mode = "env")
    IN  [i \in DOMAIN envs |-> envs[i].Target]

PairwiseDistinct(seq) == \A i, j \in DOMAIN seq : seq[i] = seq[j] => i = j

\* C16: Target uniqueness is preserved.  If no two Config elements with Mode
\* 'env' of a template had the same Target before update_template ran, no
\* two have afterwards, whatever the remote document declared and in
\* whichever form, a list that names a variable twice included.
C16_TargetUniqueness ==
    (/\ last.outcome # "none"
     /\ last.before.kind = "xml"
     /\ PairwiseDistinct(EnvTargetSeq(ParseConfigs(last.before.configs)))) =>
        PairwiseDistinct(EnvTargetSeq(ParseConfigs(files[last.project].configs)))

\* the remote list names FOO twice and the template did not have it: after
\* the write one element has Target FOO
C16_Witness ==
    /\ last.outcome = "updated"
    /\ last.before = EmptyTemplate
    /\ last.resp.body.services[1].env_form = "list"
    /\ Len(SelectSeq(last.resp.body.services[1].env_list,
                     LAMBDA item : InList(item, "=") /\ SplitKey(item) = FOO)) = 2
    /\ Len(SelectSeq(EnvTargetSeq(ParseConfigs(files[last.project].configs)),
                     LAMBDA t : t = FOO)) = 1

\* the response whose document holds nothing but the first service of resp's
\* document, and of that service nothing but the environment
FirstEnvironmentOnly(resp) ==
    LET first == resp.body.services[1] IN
    Resp(resp.st,
         [resp.body EXCEPT
             !.services = <<Service(first.env_form, first.env_dict, first.env_list,
                                    <<>>, <<>>)>>])

\* the names a service other than the first declares and the first does not
LaterOnlyNames(doc) ==
    UNION { DeclaredNames([doc EXCEPT !.services = <<doc.services[i]>>]) :
              i \in 2..Len(doc.services) }
        \ DeclaredNames(doc)

\* C17: First service wins.  Of a remote document with several services the
\* first alone counts: update_template does to the template what it would
\* do if the document held the environment of the first service and nothing
\* else - no later service, no ports, no volumes; a name that only a later
\* service declares is not appended, and where the first service has nothing
\* new the file is not written.
C17_FirstServiceWins ==
    (last.outcome # "none" /\ HasFirstService(last.resp) /\ last.before.kind = "xml") =>
        /\ \E r \in {update_template(last.before, FirstEnvironmentOnly(last.resp),
                                     IF last.write = "none" THEN "ok" ELSE last.write)} :
              /\ r.outcome = last.outcome
              /\ r.new_vars = last.new_vars
              /\ r.write = last.write
              /\ r.file = files[last.project]
        /\ \A i \in DOMAIN last.new_vars :
              last.new_vars[i].k \notin LaterOnlyNames(last.resp.body)
        /\ files[last.project].kind = "xml" =>
              AppendedNames(ParseConfigs(last.before.configs),
                            ParseConfigs(files[last.project].configs))
                  \cap LaterOnlyNames(last.resp.body) = {}
        /\ MissingNames(last.resp.body, ParseConfigs(last.before.configs)) = {} =>
              last.write = "none" /\ files[last.project] = last.before

\* the first service has ports and volumes but no environment, the second
\* declares LATE: the empty template is left as it is
C17_Witness ==
    /\ last.outcome = "up_to_date"
    /\ last.before = EmptyTemplate
    /\ last.resp.body.services = <<PortsOnlyService, LateService>>
    /\ LaterOnlyNames(last.resp.body) = {LATE}
    /\ files[last.project] = EmptyTemplate

====
